---- MODULE Spec2Model ----
(***************************************************************************)
(* A model of syncer.py: the Downloader (one resumable, retried fetch),    *)
(* the FileSynchronizer (planning, filtering, confirmation, the transfer   *)
(* loop), the process-wide terminate_requested flag and its signal        *)
(* handler.                                                                *)
(*                                                                         *)
(* Sizes are counted in chunks: one unit is one chunk yielded by           *)
(* response.iter_content.  A local file is the sequence of the remote      *)
(* chunk offsets it holds, so <<0, 1, 2>> is a correct three-chunk prefix  *)
(* and <<0, 1, 1, 2>> is a file in which chunk 1 was written twice.        *)
(* File names are sequences of characters.  The extension filter of        *)
(* get_files and _get_local_files is taken as empty (every name passes).   *)
(***************************************************************************)
EXTENDS Integers, Sequences, FiniteSets, TLC

(***************************************************************************)
(* Bounds of the model and constants of the program.                       *)
(***************************************************************************)
\* DOWNLOAD.max_retries, the default of the configuration
MaxRetries == 3
\* the largest remote file, in chunks
MaxSize == 2
\* how many times sync() is invoked on one FileSynchronizer
MaxRuns == 2

NameA == <<"a", "b">>
NameB == <<"B", "a">>
\* the names of the runs
BaseNames == {NameA, NameB}
\* a.laz and b.laz, the names of the end-to-end scenario of the planner
NameALaz == <<"a", ".", "l", "a", "z">>
NameBLaz == <<"b", ".", "l", "a", "z">>
Names == BaseNames \cup {NameALaz, NameBLaz}

\* FileInfo(name, url, size, last_modified): the fields the engine reads
FileInfo(n, s) == [name |-> n, size |-> s]

(***************************************************************************)
(* re.compile / regex.search on a small regular-expression dialect:        *)
(* a pattern is a sequence of tokens, a token is a literal character,      *)
(* "." (any character) or "*" (repeat the item before it).                 *)
(***************************************************************************)
Lower(c) == IF c = "A" THEN "a" ELSE IF c = "B" THEN "b" ELSE c

\* re.compile raises re.error for a "*" with nothing to repeat
\* ("*a": nothing to repeat, "a**": multiple repeat)
re_valid(pattern) ==
    \A i \in 1..Len(pattern) :
        pattern[i] = "*" => (i > 1 /\ pattern[i - 1] # "*")

\* the compiled pattern: its items, each a character class with a star flag
RECURSIVE re_items(_, _)
re_items(pattern, i) ==
    IF i > Len(pattern) THEN <<>>
    ELSE IF i < Len(pattern) /\ pattern[i + 1] = "*"
         THEN <<[ch |-> pattern[i], star |-> TRUE]>> \o re_items(pattern, i + 2)
         ELSE <<[ch |-> pattern[i], star |-> FALSE]>> \o re_items(pattern, i + 1)

re_compile(pattern) == re_items(pattern, 1)

\* one character against one item, under the IGNORECASE flag or not
re_char(ch, c, ignorecase) ==
    \/ ch = "."
    \/ IF ignorecase THEN Lower(ch) = Lower(c) ELSE ch = c

\* the backtracking matcher: do items i.. match at position j of s
RECURSIVE re_match_here(_, _, _, _, _)
re_match_here(items, i, s, j, ignorecase) ==
    IF i > Len(items) THEN TRUE
    ELSE IF items[i].star
         THEN \/ re_match_here(items, i + 1, s, j, ignorecase)
              \/ /\ j <= Len(s)
                 /\ re_char(items[i].ch, s[j], ignorecase)
                 /\ re_match_here(items, i, s, j + 1, ignorecase)
         ELSE /\ j <= Len(s)
              /\ re_char(items[i].ch, s[j], ignorecase)
              /\ re_match_here(items, i + 1, s, j + 1, ignorecase)

\* regex.search(name): a match starting at any position of the name
re_search(items, s, ignorecase) ==
    \E j \in 1..(Len(s) + 1) : re_match_here(items, 1, s, j, ignorecase)

(***************************************************************************)
(* The state.                                                              *)
(***************************************************************************)
VARIABLES
    terminate_requested,   \* the module-level flag
    pc,                    \* where the main thread is
    config,                \* the FILTER section: enabled, pattern, case_sensitive
    remote,                \* the remote directory: a sequence of FileInfo
    local_dir,             \* local_dir: name -> size of the file, -1 if absent
    disk,                  \* download_dir: name -> [exists, data]
    runs,                  \* sync() invocations started
    server_files,          \* sync: the listing get_files returned
    list_attempt,          \* get_files: attempt of its retry loop
    list_row,              \* get_files: rows of the table parsed so far
    partial_downloads,     \* sync: name -> local_size of a partial file, or -1
    files_to_download,     \* sync: the plan
    total_size_estimate,   \* sync: _calculate_download_size
    filtered_files,        \* self.filtered_files
    downloaded_files,      \* self.downloaded_files
    failed_files,          \* self.failed_files
    total_bytes_downloaded,\* self.total_bytes_downloaded
    idx,                   \* _download_files: plan entries already fetched
    success_count,         \* _download_files: success_count
    sync_ret,              \* what sync() returned: "none", "true", "false"
    exit_code,             \* what main() returned, -1 while running
    current_file,          \* Downloader.current_file: a FileInfo in <<>> or <<f>>
    stack,                 \* frames of _download_with_retries, innermost last
    fh_open,               \* the local file handle of the fetch is open
    dl_ret,                \* what download() returned: [valid, success, bytes]
    h_start,               \* history: the file when download() was called
    h_reqs,                \* history: requests.get calls of this download()
    h_last_range,          \* history: the Range of the last requests.get, or -1
    h_restarts,            \* history: fallback restarts of this download()
    h_exit,                \* history: the return statement download() ended at
    h_confirmed,           \* history: the operator answered "y" in this run
    h_prev,                \* history: downloaded and failed of the run before
    h_cancel,              \* history: the file a fetch left when cancelled mid-stream
    h_written              \* history: the chunks the running download() call has written,
                           \* in the runs that keep this count (NoCount in the others)

vars == <<terminate_requested, pc, config, remote, local_dir, disk, runs,
          server_files, list_attempt, list_row, partial_downloads,
          files_to_download, total_size_estimate, filtered_files,
          downloaded_files, failed_files, total_bytes_downloaded, idx,
          success_count, sync_ret, exit_code, current_file, stack, fh_open,
          dl_ret, h_start, h_reqs, h_last_range, h_restarts, h_exit, h_confirmed,
          h_prev, h_cancel, h_written>>

\* the variables of one sync() run, apart from the Downloader's
sync_vars == <<server_files, list_attempt, list_row, partial_downloads,
               files_to_download, total_size_estimate, filtered_files,
               downloaded_files, failed_files, total_bytes_downloaded, idx,
               success_count, sync_ret, h_confirmed, h_prev>>

\* the variables of the Downloader
dl_vars == <<current_file, stack, fh_open, dl_ret, h_start, h_reqs, h_last_range,
             h_restarts, h_exit, h_cancel,
             h_written>>

\* the configuration and the environment of a run
env_vars == <<config, remote, local_dir>>

(***************************************************************************)
(* Helpers.                                                                *)
(***************************************************************************)
NoRange == -1
NoRet == [valid |-> FALSE, success |-> FALSE, bytes |-> 0]
NoStart == [exists |-> FALSE, data |-> <<>>]
NoCount == -1
NoCancel == [name |-> <<>>, len |-> -1, used |-> FALSE]

\* os.path.exists / os.path.getsize on a file of download_dir
path_exists(n) == disk[n].exists
getsize(n) == Len(disk[n].data)

\* the frame of the running _download_with_retries call
Top == stack[Len(stack)]
SetTop(f) == [stack EXCEPT ![Len(stack)] = f]

\* a call whose loop has one attempt more
NewFrame_extra(start) ==
    [start_position |-> start, attempt |-> -1, bytes_downloaded |-> 0,
     total_size |-> 0, status |-> 0, resp_pos |-> 0, resp_open |-> FALSE]

\* the locals of one _download_with_retries call
NewFrame(start) ==
    [start_position |-> start, attempt |-> 0, bytes_downloaded |-> 0,
     total_size |-> 0, status |-> 0, resp_pos |-> 0, resp_open |-> FALSE]

\* the response and total_size of a finished attempt are not read again:
\* the next attempt assigns them before it reads them
DropResponse(f) ==
    [f EXCEPT !.total_size = 0, !.status = 0, !.resp_pos = 0, !.resp_open = FALSE]

\* the response of an attempt that raise_for_status ended: its status,
\* total and position are not read again, but nothing closed its stream
\* and the local still refers to it
UnreadResponse(f) == [DropResponse(f) EXCEPT !.resp_open = TRUE]

\* the history of the chunks written: back to none at a call of download(),
\* one more at each f.write(chunk)
count_reset(w) == IF w = NoCount THEN NoCount ELSE 0
count_add(w) == IF w = NoCount THEN NoCount ELSE w + 1

\* the file handed to download()
CurFile == current_file[1]

(***************************************************************************)
(* signal_handler: the first signal sets the flag, a second one while the  *)
(* flag is set calls sys.exit(1).                                          *)
(***************************************************************************)
Running == pc \notin {"exited", "killed"}

\* a handler that takes every signal for the first
forced_never == FALSE

\* "if not terminate_requested: ... else: sys.exit(1)"
forced == terminate_requested

signal_handler ==
    /\ Running
    /\ IF ~forced
       THEN /\ terminate_requested' = TRUE
            /\ UNCHANGED <<pc, exit_code, fh_open>>
       ELSE /\ pc' = "killed"
            /\ exit_code' = 1
            /\ fh_open' = FALSE
            /\ UNCHANGED terminate_requested
    /\ UNCHANGED <<env_vars, disk, runs, sync_vars, current_file, stack, dl_ret,
                   h_start, h_reqs, h_last_range, h_restarts, h_exit, h_cancel,
                   h_written>>

(***************************************************************************)
(* Downloader.download and Downloader._download_with_retries.              *)
(***************************************************************************)
\* download(): read the on-disk size, then call _download_with_retries
\* a download() that takes every file as new
downloaded_size_fresh(n) == 0

\* a download() that resumes one chunk before the end of the file
downloaded_size_rewind(n) ==
    IF path_exists(n) /\ getsize(n) > 0 THEN getsize(n) - 1 ELSE 0

\* "os.path.getsize(local_path) if file_exists else 0"
downloaded_size(n) == IF path_exists(n) THEN getsize(n) ELSE 0

download(file) ==
    /\ current_file' = <<file>>
    /\ stack' = <<NewFrame(downloaded_size(file.name))>>
    /\ dl_ret' = NoRet
    /\ h_start' = disk[file.name]
    /\ h_reqs' = 0
    /\ h_last_range' = NoRange
    /\ h_restarts' = 0
    /\ h_exit' = "none"
    /\ h_cancel' = IF h_cancel.name = file.name
                   THEN [h_cancel EXCEPT !.used = TRUE]
                   ELSE h_cancel
    /\ h_written' = count_reset(h_written)
    /\ pc' = "dl_top"
    /\ UNCHANGED <<disk, fh_open>>

\* a return of _download_with_retries: the fallback call is a tail call
\* (return self._download_with_retries(...)), so every frame returns the
\* same pair, and download() resets current_file and hands the pair on
dl_return(success, bytes, exit) ==
    /\ dl_ret' = [valid |-> TRUE, success |-> success, bytes |-> bytes]
    /\ h_exit' = exit
    /\ h_cancel' = IF exit = "flag_chunk"
                   THEN [name |-> CurFile.name, len |-> getsize(CurFile.name),
                         used |-> FALSE]
                   ELSE h_cancel
    /\ UNCHANGED h_written
    /\ stack' = <<>>
    /\ current_file' = <<>>
    /\ pc' = "dl_returned"

\* the Range header of an attempt: its first byte, or -1 for no header
range_header(start_position) ==
    IF start_position > 0 THEN start_position ELSE -1

\* a test that takes every answer but 206 as a range not honoured
range_not_honored_any(start_position, status) ==
    status # 206

\* "start_position > 0 and response.status_code != 206"
range_not_honored(start_position, status) ==
    start_position > 0 /\ status # 206

\* total_size from Content-Range ("/<total>") or content-length
expected_total(status, content_range_total, content_length, start_position) ==
    IF status = 206 THEN content_range_total
    ELSE content_length + start_position

\* a fetch that opens the file for truncate-write whatever its start
open_mode_truncate(start_position) == "wb"

\* a fetch that opens the file for append whatever its start
open_mode_append(start_position) == "ab"

\* mode = "ab" if start_position > 0 else "wb"
open_mode(start_position) == IF start_position > 0 THEN "ab" ELSE "wb"

\* open(local_path, mode): "wb" truncates, both create the file
open_file(n, mode) ==
    [disk EXCEPT ![n] = [exists |-> TRUE,
                         data |-> IF mode = "wb" THEN <<>> ELSE @.data]]

\* a fetch that does not compare the sizes
is_truncated_never(total_size, final_size) == FALSE

\* "total_size > 0 and final_size < total_size": the transfer is short
is_truncated(total_size, final_size) ==
    total_size > 0 /\ final_size < total_size

\* the top of the retry loop: for attempt in range(max_retries), then the
\* terminate_requested test
\* a retry loop that does not test the flag
stop_never == FALSE

\* "if terminate_requested:" at the top of an attempt
stop_before_attempt == terminate_requested

dl_attempt_top ==
    /\ pc = "dl_top"
    /\ IF Top.attempt >= MaxRetries
       THEN dl_return(FALSE, Top.bytes_downloaded, "loop_end")
       ELSE IF stop_before_attempt
            THEN dl_return(FALSE, Top.bytes_downloaded, "flag_top")
            ELSE /\ pc' = "dl_request"
                 /\ UNCHANGED <<current_file, stack, dl_ret, h_exit, h_cancel, h_written>>
    /\ UNCHANGED <<terminate_requested, env_vars, disk, runs, sync_vars, exit_code,
                   fh_open, h_start, h_reqs, h_last_range, h_restarts>>

\* what requests.get adds to the history
LogRequest ==
    /\ h_reqs' = h_reqs + 1
    /\ h_last_range' = range_header(Top.start_position)

\* requests.get raises (connection error, timeout)
dl_request_raises ==
    /\ pc = "dl_request"
    /\ LogRequest
    /\ pc' = "dl_except"
    /\ UNCHANGED <<terminate_requested, env_vars, disk, runs, sync_vars, exit_code,
                   current_file, stack, fh_open, dl_ret, h_start, h_restarts, h_exit, h_cancel,
                   h_written>>

\* the statuses a server gives: 206 only to a request with a Range header
\* whose first byte the file has, 500 stands for every error status
Statuses(start_position, size) ==
    IF start_position > 0 /\ start_position < size THEN {200, 206, 500} ELSE {200, 500}

\* a resume was asked and the server did not answer 206: restart from 0.
\* The call is a tail call, so of the calling frame only what outlives the
\* call is kept: its start_position and its response, which nothing closed
Waiting(f, status) ==
    [NewFrame(f.start_position) EXCEPT !.status = status, !.resp_open = TRUE]

dl_request_fallback ==
    /\ pc = "dl_request"
    /\ \E status \in Statuses(Top.start_position, CurFile.size) :
        /\ range_not_honored(Top.start_position, status)
        /\ stack' = Append(SetTop(Waiting(Top, status)), NewFrame(0))
    /\ LogRequest
    /\ h_restarts' = h_restarts + 1
    /\ pc' = "dl_top"
    /\ UNCHANGED <<terminate_requested, env_vars, disk, runs, sync_vars, exit_code,
                   current_file, fh_open, dl_ret, h_start, h_exit, h_cancel,
                   h_written>>

\* a fetch that opens the file before it looks at the status
dl_request_error_status_opening ==
    /\ pc = "dl_request"
    /\ \E status \in Statuses(Top.start_position, CurFile.size) :
        /\ ~range_not_honored(Top.start_position, status)
        /\ status = 500
        /\ stack' = SetTop(UnreadResponse(Top))
    /\ disk' = open_file(CurFile.name, open_mode(Top.start_position))
    /\ LogRequest
    /\ pc' = "dl_except"
    /\ UNCHANGED <<terminate_requested, env_vars, runs, sync_vars, exit_code,
                   current_file, fh_open, dl_ret, h_start, h_restarts, h_exit, h_cancel,
                   h_written>>

\* response.raise_for_status() raises HTTPError, a RequestException
dl_request_error_status ==
    /\ pc = "dl_request"
    /\ \E status \in Statuses(Top.start_position, CurFile.size) :
        /\ ~range_not_honored(Top.start_position, status)
        /\ status = 500
        /\ stack' = SetTop(UnreadResponse(Top))
    /\ LogRequest
    /\ pc' = "dl_except"
    /\ UNCHANGED <<terminate_requested, env_vars, disk, runs, sync_vars, exit_code,
                   current_file, fh_open, dl_ret, h_start, h_restarts, h_exit, h_cancel,
                   h_written>>

\* a 200 or 206 response: derive total_size, open the file; has_total says
\* whether the header the total is read from is there
dl_request_ok ==
    /\ pc = "dl_request"
    /\ \E status \in Statuses(Top.start_position, CurFile.size), has_total \in BOOLEAN :
        LET start == Top.start_position
            size == CurFile.size
            content_range_total == IF has_total THEN size ELSE 0
            content_length == IF has_total THEN size ELSE 0
        IN  /\ ~range_not_honored(start, status)
            /\ status # 500
            /\ stack' = SetTop([Top EXCEPT
                    !.status = status,
                    !.resp_open = TRUE,
                    !.resp_pos = IF status = 206 THEN start ELSE 0,
                    !.total_size = expected_total(status, content_range_total,
                                                  content_length, start),
                    !.bytes_downloaded = 0])
            /\ disk' = open_file(CurFile.name, open_mode(start))
    /\ LogRequest
    /\ fh_open' = TRUE
    /\ pc' = "dl_stream"
    /\ UNCHANGED <<terminate_requested, env_vars, runs, sync_vars, exit_code,
                   current_file, dl_ret, h_start, h_restarts, h_exit, h_cancel,
                   h_written>>

\* f.write(chunk) and the counters
write_chunk(f, n) ==
    /\ disk' = [disk EXCEPT ![n].data = Append(@, f.resp_pos)]
    /\ stack' = SetTop([f EXCEPT !.resp_pos = @ + 1,
                                 !.bytes_downloaded = @ + 1])
    /\ h_written' = count_add(h_written)

\* a block that leaves the file as it is
with_exit_leak == UNCHANGED fh_open

\* control leaves "with open(local_path, mode) as f": f is closed
with_exit == fh_open' = FALSE

\* a chunk loop that does not test the flag
stop_before_write_never == FALSE

\* "if terminate_requested:" on a chunk that has arrived
stop_before_write == terminate_requested

\* iter_content yields the next chunk: the flag is tested before the write.
\* The test and the write are one step: a signal that lands between them
\* only sets the flag, so it is the same as a signal after the write
dl_stream_chunk ==
    /\ pc = "dl_stream"
    /\ Top.resp_pos < CurFile.size
    /\ IF stop_before_write
       THEN /\ with_exit
            /\ dl_return(FALSE, Top.bytes_downloaded, "flag_chunk")
            /\ UNCHANGED disk
       ELSE /\ write_chunk(Top, CurFile.name)
            /\ UNCHANGED <<pc, current_file, fh_open, dl_ret, h_exit, h_cancel>>
    /\ UNCHANGED <<terminate_requested, env_vars, runs, sync_vars, exit_code,
                   h_start, h_reqs, h_last_range, h_restarts>>

\* the stream ends without an exception (the whole body was sent, or the
\* server closed early): the file is closed and its size verified
dl_stream_end ==
    /\ pc = "dl_stream"
    /\ with_exit
    /\ LET final_size == getsize(CurFile.name)
       IN  IF is_truncated(Top.total_size, final_size)
           THEN dl_return(FALSE, Top.bytes_downloaded, "truncated")
           ELSE dl_return(TRUE, Top.bytes_downloaded, "complete")
    /\ UNCHANGED <<terminate_requested, env_vars, disk, runs, sync_vars, exit_code,
                   h_start, h_reqs, h_last_range, h_restarts>>

\* iter_content raises (connection reset, read timeout): the with block
\* closes the file
dl_stream_raises ==
    /\ pc = "dl_stream"
    /\ with_exit
    /\ stack' = SetTop(DropResponse(Top))
    /\ pc' = "dl_except"
    /\ UNCHANGED <<terminate_requested, env_vars, disk, runs, sync_vars, exit_code,
                   current_file, dl_ret, h_start, h_reqs, h_last_range, h_restarts,
                   h_exit, h_cancel, h_written>>

\* a retry loop whose attempt number does not advance
next_attempt_same(attempt) == attempt

\* "for attempt in range(self.max_retries)": the attempt after this one
next_attempt(attempt) == attempt + 1

\* except RequestException: give up on the flag or on the last attempt,
\* else sleep retry_delay and go round the loop.  The handler reads the
\* on-disk size into current_size for its log line and assigns nothing
\* else: start_position keeps the value the call was given
dl_except ==
    /\ pc = "dl_except"
    /\ IF terminate_requested
       THEN dl_return(FALSE, Top.bytes_downloaded, "flag_except")
       ELSE IF Top.attempt < MaxRetries - 1
            THEN /\ stack' = SetTop([Top EXCEPT !.attempt = next_attempt(@)])
                 /\ pc' = "dl_top"
                 /\ UNCHANGED <<current_file, dl_ret, h_exit, h_cancel, h_written>>
            ELSE dl_return(FALSE, Top.bytes_downloaded, "exhausted")
    /\ UNCHANGED <<terminate_requested, env_vars, disk, runs, sync_vars, exit_code,
                   fh_open, h_start, h_reqs, h_last_range, h_restarts>>

(***************************************************************************)
(* ServerParser.get_files: the retry loop, the request, the rows.          *)
(***************************************************************************)
\* sync() returns
sync_return(v) ==
    /\ sync_ret' = v
    /\ pc' = "returned"

\* get_files returns files to sync()
get_files_return(files) ==
    /\ server_files' = files
    /\ pc' = "listed"

\* the top of the retry loop of get_files
get_files_top ==
    /\ pc = "list_top"
    /\ IF list_attempt >= MaxRetries \/ terminate_requested
       THEN get_files_return(<<>>)
       ELSE pc' = "list_req" /\ UNCHANGED server_files
    /\ UNCHANGED <<terminate_requested, env_vars, disk, runs, list_attempt, list_row,
                   partial_downloads, files_to_download, total_size_estimate,
                   filtered_files, downloaded_files, failed_files,
                   total_bytes_downloaded, idx, success_count, sync_ret,
                   h_confirmed, h_prev, exit_code, dl_vars>>

\* the timeout argument of the requests.get of each network call: none in
\* get_files, (connect, read) in the fetch, one value in the connection test
NoTimeout == <<>>
request_timeout(call) ==
    CASE call = "listing" -> NoTimeout
      [] call = "fetch" -> <<10, 30>>
      [] call = "connection_test" -> <<10>>

\* the server accepts the connection of get_files and never answers: with
\* no timeout requests.get does not return (with one it raises, which is
\* get_files_raises)
get_files_hangs ==
    /\ pc = "list_req"
    /\ request_timeout("listing") = NoTimeout
    /\ pc' = "hung"
    /\ UNCHANGED <<terminate_requested, env_vars, disk, runs, sync_vars, exit_code,
                   dl_vars>>

\* requests.get or raise_for_status raises
get_files_raises ==
    /\ pc = "list_req"
    /\ IF terminate_requested \/ list_attempt >= MaxRetries - 1
       THEN get_files_return(<<>>) /\ UNCHANGED list_attempt
       ELSE /\ list_attempt' = list_attempt + 1
            /\ pc' = "list_top"
            /\ UNCHANGED server_files
    /\ UNCHANGED <<terminate_requested, env_vars, disk, runs, list_row,
                   partial_downloads, files_to_download, total_size_estimate,
                   filtered_files, downloaded_files, failed_files,
                   total_bytes_downloaded, idx, success_count, sync_ret,
                   h_confirmed, h_prev, exit_code, dl_vars>>

\* the page has no table
get_files_no_table ==
    /\ pc = "list_req"
    /\ get_files_return(<<>>)
    /\ UNCHANGED <<terminate_requested, env_vars, disk, runs, list_attempt, list_row,
                   partial_downloads, files_to_download, total_size_estimate,
                   filtered_files, downloaded_files, failed_files,
                   total_bytes_downloaded, idx, success_count, sync_ret,
                   h_confirmed, h_prev, exit_code, dl_vars>>

\* the page has the table: files = []
get_files_table ==
    /\ pc = "list_req"
    /\ server_files' = <<>>
    /\ list_row' = 0
    /\ pc' = "list_parse"
    /\ UNCHANGED <<terminate_requested, env_vars, disk, runs, list_attempt,
                   partial_downloads, files_to_download, total_size_estimate,
                   filtered_files, downloaded_files, failed_files,
                   total_bytes_downloaded, idx, success_count, sync_ret,
                   h_confirmed, h_prev, exit_code, dl_vars>>

\* one turn of the loop over the rows: return files at the end or on the
\* flag, else append the row's FileInfo
get_files_row ==
    /\ pc = "list_parse"
    /\ IF list_row >= Len(remote) \/ terminate_requested
       THEN get_files_return(server_files) /\ UNCHANGED list_row
       ELSE /\ server_files' = Append(server_files, remote[list_row + 1])
            /\ list_row' = list_row + 1
            /\ UNCHANGED pc
    /\ UNCHANGED <<terminate_requested, env_vars, disk, runs, list_attempt,
                   partial_downloads, files_to_download, total_size_estimate,
                   filtered_files, downloaded_files, failed_files,
                   total_bytes_downloaded, idx, success_count, sync_ret,
                   h_confirmed, h_prev, exit_code, dl_vars>>

(***************************************************************************)
(* The planning functions of FileSynchronizer.                             *)
(***************************************************************************)
NoPartial == [n \in Names |-> -1]

\* os.listdir(self.local_dir): the names of the files there
listdir_local == {n \in Names : local_dir[n] >= 0}

\* _get_local_files: the names of local_dir and of download_dir
get_local_files == listdir_local \cup {n \in Names : disk[n].exists}

\* _identify_partial_downloads: name -> local_size where the file of
\* download_dir is shorter than the server's, -1 where there is no entry
identify_partial_downloads(files) ==
    [n \in Names |->
        IF \E i \in 1..Len(files) :
              files[i].name = n /\ path_exists(n) /\ getsize(n) < files[i].size
        THEN getsize(n)
        ELSE -1]

\* a planner that takes only the files absent from the local names
needs_download_absent(file, local_files, partial) ==
    file.name \notin local_files

\* "file.name not in local_files or file.name in partial_downloads"
needs_download(file, local_files, partial) ==
    file.name \notin local_files \/ partial[file.name] >= 0

\* a planner that lists the files it keeps last to first
determine_files_to_download_reversed(files, local_files, partial) ==
    LET kept == SelectSeq(files, LAMBDA f : needs_download(f, local_files, partial))
    IN  [i \in 1..Len(kept) |-> kept[Len(kept) + 1 - i]]

\* _determine_files_to_download
determine_files_to_download(files, local_files, partial) ==
    SelectSeq(files, LAMBDA f : needs_download(f, local_files, partial))

\* [file.name for file in files]
NamesOf(files) == [i \in 1..Len(files) |-> files[i].name]

\* regex.match in place of regex.search: a match at the start of the name
filter_keeps_match(file) ==
    re_match_here(re_compile(config.pattern), 1, file.name, 1, ~config.case_sensitive)

\* "if regex.search(file.name)" under the configured flags
filter_keeps(file) ==
    re_search(re_compile(config.pattern), file.name, ~config.case_sensitive)

\* a filter that does not store the names it rejects
filter_by_pattern_unreported(files) ==
    [kept |-> SelectSeq(files, LAMBDA f : filter_keeps(f)),
     filtered |-> <<>>]

\* a filter that stores the names of the files it keeps as filtered out too
filter_by_pattern_all(files) ==
    [kept |-> SelectSeq(files, LAMBDA f : filter_keeps(f)),
     filtered |-> NamesOf(files)]

\* the files kept and the names filtered out by a valid pattern
filter_by_pattern(files) ==
    [kept |-> SelectSeq(files, LAMBDA f : filter_keeps(f)),
     filtered |-> NamesOf(SelectSeq(files, LAMBDA f : ~filter_keeps(f)))]

\* a filter that keeps every file when the pattern does not compile
apply_regex_filter_lenient(files) ==
    IF ~config.enabled
    THEN [kept |-> <<>>, filtered |-> NamesOf(files)]
    ELSE IF ~re_valid(config.pattern)
         THEN [kept |-> files, filtered |-> <<>>]
         ELSE filter_by_pattern(files)

\* a filter that, when disabled, lets every file through
apply_regex_filter_open(files) ==
    IF ~config.enabled
    THEN [kept |-> files, filtered |-> <<>>]
    ELSE IF ~re_valid(config.pattern)
         THEN [kept |-> <<>>, filtered |-> NamesOf(files)]
         ELSE filter_by_pattern(files)

\* _apply_regex_filter: the files kept and the names stored in filtered_files
apply_regex_filter(files) ==
    IF ~config.enabled
    THEN [kept |-> <<>>, filtered |-> NamesOf(files)]
    ELSE IF ~re_valid(config.pattern)
         THEN [kept |-> <<>>, filtered |-> NamesOf(files)]
         ELSE filter_by_pattern(files)

\* an estimate that counts every file whole
remaining_size_whole(file, partial) == file.size

\* the bytes one file adds to the estimate
remaining_size(file, partial) ==
    IF partial[file.name] >= 0 THEN file.size - partial[file.name] ELSE file.size

\* _calculate_download_size
RECURSIVE calculate_download_size(_, _)
calculate_download_size(files, partial) ==
    IF files = <<>> THEN 0
    ELSE remaining_size(Head(files), partial)
         + calculate_download_size(Tail(files), partial)

(***************************************************************************)
(* FileSynchronizer.sync, step by step; each step starts where the code    *)
(* reads terminate_requested or waits for the operator.                    *)
(***************************************************************************)
\* a sync() that takes filtering as enabled without reading the section
filter_enabled_assumed == TRUE

\* filter_enabled = self.config.getboolean("FILTER", "enabled")
filter_enabled == config.enabled

\* sync() is entered: the result lists are reset and FILTER.enabled read
\* a sync() that clears the flag with its lists
reset_keeps_flag_cleared == terminate_requested' = FALSE

\* the "Reset state" block of sync() assigns the lists and the byte total,
\* not terminate_requested
reset_keeps_flag == UNCHANGED terminate_requested

sync_enter ==
    /\ runs' = runs + 1
    /\ downloaded_files' = <<>>
    /\ failed_files' = <<>>
    /\ filtered_files' = <<>>
    /\ total_bytes_downloaded' = 0
    /\ sync_ret' = "none"
    /\ h_confirmed' = FALSE
    /\ h_prev' = [downloaded |-> downloaded_files, failed |-> failed_files]
    /\ list_attempt' = 0
    /\ list_row' = 0
    /\ server_files' = <<>>
    /\ partial_downloads' = NoPartial
    /\ files_to_download' = <<>>
    /\ total_size_estimate' = 0
    /\ idx' = 0
    /\ success_count' = 0
    /\ pc' = IF filter_enabled THEN "list_top" ELSE "filter_prompt"
    /\ reset_keeps_flag
    /\ UNCHANGED <<env_vars, disk, exit_code, dl_vars>>

\* main() calls synchronizer.sync(args.extension)
sync_start ==
    /\ pc = "idle"
    /\ sync_enter

\* sync() is called again on the same FileSynchronizer
sync_again ==
    /\ pc = "returned"
    /\ runs < MaxRuns
    /\ sync_enter

\* the operator answers the offer to enable filtering with pattern '.*'
sync_filter_prompt ==
    /\ pc = "filter_prompt"
    /\ \E yes \in BOOLEAN :
        IF yes
        THEN /\ config' = [config EXCEPT !.enabled = TRUE, !.pattern = <<".", "*">>]
             /\ pc' = "list_top"
             /\ UNCHANGED sync_ret
        ELSE /\ sync_return("true")
             /\ UNCHANGED config
    /\ UNCHANGED <<terminate_requested, remote, local_dir, disk, runs, server_files,
                   list_attempt, list_row, partial_downloads, files_to_download,
                   total_size_estimate, filtered_files, downloaded_files,
                   failed_files, total_bytes_downloaded, idx, success_count,
                   h_confirmed, h_prev, exit_code, dl_vars>>

\* the candidates: _determine_files_to_download on the local state
candidates(files) ==
    determine_files_to_download(files, get_local_files,
                                identify_partial_downloads(files))

\* sync(): local files, partial downloads, the candidates, the filter
plan_files ==
    LET filtered == apply_regex_filter(candidates(server_files))
    IN  /\ partial_downloads' = identify_partial_downloads(server_files)
        /\ files_to_download' = filtered.kept
        /\ filtered_files' = filtered.filtered

\* after get_files: the flag, the empty listing, then the plan
\* a sync() that does not look at the flag after the listing
stop_after_listing_never == FALSE
stop_after_listing == terminate_requested
\* a sync() that plans whatever the listing holds
listing_failed_never(files) == FALSE

\* "if not server_files: return False"
listing_failed(files) == files = <<>>

sync_after_listing ==
    /\ pc = "listed"
    /\ IF stop_after_listing \/ listing_failed(server_files)
       THEN /\ sync_return("false")
            /\ UNCHANGED <<partial_downloads, files_to_download, filtered_files>>
       ELSE /\ plan_files
            /\ pc' = "planned"
            /\ UNCHANGED sync_ret
    /\ UNCHANGED <<terminate_requested, env_vars, disk, runs, server_files,
                   list_attempt, list_row, total_size_estimate, downloaded_files,
                   failed_files, total_bytes_downloaded, idx, success_count,
                   h_confirmed, h_prev, exit_code, dl_vars>>

\* after the plan: the flag, the empty plan, then the estimate and summary
sync_after_plan ==
    /\ pc = "planned"
    /\ IF terminate_requested
       THEN sync_return("false") /\ UNCHANGED total_size_estimate
       ELSE IF files_to_download = <<>>
            THEN sync_return("true") /\ UNCHANGED total_size_estimate
            ELSE /\ total_size_estimate' =
                        calculate_download_size(files_to_download, partial_downloads)
                 /\ pc' = "summarized"
                 /\ UNCHANGED sync_ret
    /\ UNCHANGED <<terminate_requested, env_vars, disk, runs, server_files,
                   list_attempt, list_row, partial_downloads, files_to_download,
                   filtered_files, downloaded_files, failed_files,
                   total_bytes_downloaded, idx, success_count, h_confirmed,
                   h_prev, exit_code, dl_vars>>

\* after the summary: the flag, then the confirmation prompt
\* a sync() that does not look at the flag after the summary
stop_after_summary_never == FALSE

\* "if terminate_requested: return False" after _show_download_summary
stop_after_summary == terminate_requested

sync_after_summary ==
    /\ pc = "summarized"
    /\ IF stop_after_summary
       THEN sync_return("false")
       ELSE pc' = "confirm" /\ UNCHANGED sync_ret
    /\ UNCHANGED <<terminate_requested, env_vars, disk, runs, server_files,
                   list_attempt, list_row, partial_downloads, files_to_download,
                   total_size_estimate, filtered_files, downloaded_files,
                   failed_files, total_bytes_downloaded, idx, success_count,
                   h_confirmed, h_prev, exit_code, dl_vars>>

\* the operator answers "Continue with download? (y/n)"
\* a sync() that goes on whatever the answer
declined_never(yes) == FALSE

\* "if confirmation.lower() != 'y': return False", yes being the answer
declined(yes) == ~yes

sync_confirm ==
    /\ pc = "confirm"
    /\ \E yes \in BOOLEAN :
        /\ h_confirmed' = yes
        /\ IF declined(yes)
           THEN /\ sync_return("false")
                /\ UNCHANGED <<idx, success_count>>
           ELSE /\ idx' = 0
                /\ success_count' = 0
                /\ pc' = "loop"
                /\ UNCHANGED sync_ret
    /\ UNCHANGED <<terminate_requested, env_vars, disk, runs, server_files,
                   list_attempt, list_row, partial_downloads, files_to_download,
                   total_size_estimate, filtered_files, downloaded_files,
                   failed_files, total_bytes_downloaded, h_prev, exit_code, dl_vars>>

(***************************************************************************)
(* FileSynchronizer._download_files.                                       *)
(***************************************************************************)
\* _download_files returns: _show_final_summary, then
\* "return success and not terminate_requested" reads the flag
download_files_return ==
    pc' = "summary"

\* a loop over the plan that does not test the flag
stop_between_files_never == FALSE

\* "if terminate_requested: return False" at the top of the loop
stop_between_files == terminate_requested

\* the top of the loop over the plan: the end of the plan, the flag, or
\* the call of download() for the next entry
download_files_top ==
    /\ pc = "loop"
    /\ IF idx >= Len(files_to_download) \/ stop_between_files
       THEN /\ download_files_return
            /\ UNCHANGED dl_vars
       ELSE /\ download(files_to_download[idx + 1])
    /\ UNCHANGED <<terminate_requested, env_vars, disk, runs, sync_vars, exit_code>>

\* a loop that breaks at the first failed fetch
stop_after_failure_always == TRUE

\* "if terminate_requested: break" after a failed fetch
stop_after_failure == terminate_requested

\* a loop that puts the newest failure first
record_failure_first(name) == failed_files' = <<name>> \o failed_files

\* self.failed_files.append(file.name)
record_failure(name) == failed_files' = Append(failed_files, name)

\* download() has returned: the byte count and the outcome are recorded
download_files_record ==
    /\ pc = "dl_returned"
    /\ total_bytes_downloaded' = total_bytes_downloaded + dl_ret.bytes
    /\ idx' = idx + 1
    /\ IF dl_ret.success
       THEN /\ success_count' = success_count + 1
            /\ downloaded_files' = Append(downloaded_files, files_to_download[idx + 1].name)
            /\ pc' = "loop"
            /\ UNCHANGED failed_files
       ELSE /\ record_failure(files_to_download[idx + 1].name)
            /\ IF stop_after_failure THEN download_files_return ELSE pc' = "loop"
            /\ UNCHANGED <<success_count, downloaded_files>>
    /\ UNCHANGED <<terminate_requested, env_vars, disk, runs, server_files,
                   list_attempt, list_row, partial_downloads, files_to_download,
                   total_size_estimate, filtered_files, sync_ret, h_confirmed,
                   h_prev, exit_code, dl_vars>>

\* a _download_files that reports success whatever the outcomes
all_succeeded_always == TRUE

\* the value _download_files returned
all_succeeded == success_count = Len(files_to_download)

\* sync(): "return success and not terminate_requested"
sync_finish ==
    /\ pc = "summary"
    /\ sync_return(IF all_succeeded /\ ~terminate_requested THEN "true" ELSE "false")
    /\ UNCHANGED <<terminate_requested, env_vars, disk, runs, server_files,
                   list_attempt, list_row, partial_downloads, files_to_download,
                   total_size_estimate, filtered_files, downloaded_files,
                   failed_files, total_bytes_downloaded, idx, success_count,
                   h_confirmed, h_prev, exit_code, dl_vars>>

\* a main() that does not look at the flag
exit_status_plain(ret, flag) == IF ret = "true" THEN 0 ELSE 1

\* main(): 0 if sync() returned True, else 2 if the flag is set, else 1
exit_status(ret, flag) ==
    IF ret = "true" THEN 0
    ELSE IF flag THEN 2 ELSE 1

main_exit ==
    /\ pc = "returned"
    /\ exit_code' = exit_status(sync_ret, terminate_requested)
    /\ pc' = "exited"
    /\ UNCHANGED <<terminate_requested, env_vars, disk, runs, sync_vars, dl_vars>>

\* main(): the credentials are incomplete or the connection test fails
\* (and the operator does not repair them): return 1 before sync()
main_preflight_fails ==
    /\ pc = "idle"
    /\ exit_code' = 1
    /\ pc' = "exited"
    /\ UNCHANGED <<terminate_requested, env_vars, disk, runs, sync_vars, dl_vars>>

(***************************************************************************)
(* The initial states and the specifications.                              *)
(***************************************************************************)
\* the patterns a configuration may hold: match-all, a literal, an invalid one
Patterns == {<<".", "*">>, <<"b">>, <<"*">>}

\* the remote directories: listings with distinct names
Remotes == {<<>>, <<FileInfo(NameA, MaxSize), FileInfo(NameB, 1)>>}

\* a file of download_dir: absent, or the first k chunks of the remote file
Prefix(k) == [i \in 1..k |-> i - 1]
LocalFiles == {NoStart} \cup {[exists |-> TRUE, data |-> Prefix(k)] : k \in 0..MaxSize}

\* a directory that holds files of the names of the runs only
OnBaseNames(dir, absent) ==
    [n \in Names |-> IF n \in BaseNames THEN dir[n] ELSE absent]

\* local_dir: each file absent or one chunk long; no code reads the size
LocalDirs == {OnBaseNames(dir, -1) : dir \in [BaseNames -> {-1, 1}]}

\* download_dir: each file absent or a prefix of the remote file
DownloadDirs == {OnBaseNames(dir, NoStart) : dir \in [BaseNames -> LocalFiles]}

InitState(count) ==
    /\ terminate_requested = FALSE
    /\ pc = "idle"
    /\ config \in [enabled : BOOLEAN, pattern : Patterns, case_sensitive : BOOLEAN]
    /\ remote \in Remotes
    /\ local_dir \in LocalDirs
    /\ disk \in DownloadDirs
    /\ Len(disk[NameB].data) <= 1
    /\ runs = 0
    /\ server_files = <<>>
    /\ list_attempt = 0
    /\ list_row = 0
    /\ partial_downloads = NoPartial
    /\ files_to_download = <<>>
    /\ total_size_estimate = 0
    /\ filtered_files = <<>>
    /\ downloaded_files = <<>>
    /\ failed_files = <<>>
    /\ total_bytes_downloaded = 0
    /\ idx = 0
    /\ success_count = 0
    /\ sync_ret = "none"
    /\ exit_code = -1
    /\ current_file = <<>>
    /\ stack = <<>>
    /\ fh_open = FALSE
    /\ dl_ret = NoRet
    /\ h_start = NoStart
    /\ h_reqs = 0
    /\ h_last_range = NoRange
    /\ h_restarts = 0
    /\ h_exit = "none"
    /\ h_confirmed = FALSE
    /\ h_prev = [downloaded |-> <<>>, failed |-> <<>>]
    /\ h_cancel = NoCancel
    /\ h_written = count

Init == InitState(NoCount)

Next ==
    \/ signal_handler
    \/ main_preflight_fails
    \/ sync_start
    \/ sync_filter_prompt
    \/ get_files_top
    \/ get_files_raises
    \/ get_files_no_table
    \/ get_files_table
    \/ get_files_row
    \/ sync_after_listing
    \/ sync_after_plan
    \/ sync_after_summary
    \/ sync_confirm
    \/ download_files_top
    \/ download_files_record
    \/ dl_attempt_top
    \/ dl_request_raises
    \/ dl_request_fallback
    \/ dl_request_error_status
    \/ dl_request_ok
    \/ dl_stream_chunk
    \/ dl_stream_end
    \/ dl_stream_raises
    \/ dl_except
    \/ sync_finish
    \/ main_exit

\* main() runs sync() once
Spec == Init /\ [][Next]_vars

\* sync() called up to MaxRuns times on one FileSynchronizer, with the
\* filter enabled and the match-all pattern
InitRerun ==
    /\ Init
    /\ config = [enabled |-> TRUE, pattern |-> <<".", "*">>, case_sensitive |-> FALSE]

NextRerun ==
    \/ signal_handler
    \/ sync_start
    \/ sync_again
    \/ get_files_top
    \/ get_files_raises
    \/ get_files_no_table
    \/ get_files_table
    \/ get_files_row
    \/ sync_after_listing
    \/ sync_after_plan
    \/ sync_after_summary
    \/ sync_confirm
    \/ download_files_top
    \/ download_files_record
    \/ dl_attempt_top
    \/ dl_request_raises
    \/ dl_request_fallback
    \/ dl_request_error_status
    \/ dl_request_ok
    \/ dl_stream_chunk
    \/ dl_stream_end
    \/ dl_stream_raises
    \/ dl_except
    \/ sync_finish
    \/ main_exit

SpecRerun == InitRerun /\ [][NextRerun]_vars

(***************************************************************************)
(* The program started again after it ended: a new process, whose flag is  *)
(* False and whose objects are new, on the download_dir the last one left. *)
(***************************************************************************)
main_restart ==
    /\ pc \in {"exited", "killed"}
    /\ runs < MaxRuns
    /\ terminate_requested' = FALSE
    /\ pc' = "idle"
    /\ server_files' = <<>>
    /\ list_attempt' = 0
    /\ list_row' = 0
    /\ partial_downloads' = NoPartial
    /\ files_to_download' = <<>>
    /\ total_size_estimate' = 0
    /\ filtered_files' = <<>>
    /\ downloaded_files' = <<>>
    /\ failed_files' = <<>>
    /\ total_bytes_downloaded' = 0
    /\ idx' = 0
    /\ success_count' = 0
    /\ sync_ret' = "none"
    /\ exit_code' = -1
    /\ current_file' = <<>>
    /\ stack' = <<>>
    /\ fh_open' = FALSE
    /\ dl_ret' = NoRet
    /\ h_start' = NoStart
    /\ h_reqs' = 0
    /\ h_last_range' = NoRange
    /\ h_restarts' = 0
    /\ h_exit' = "none"
    /\ h_confirmed' = FALSE
    /\ h_prev' = [downloaded |-> <<>>, failed |-> <<>>]
    /\ h_written' = count_reset(h_written)
    /\ UNCHANGED <<env_vars, disk, runs, h_cancel>>

\* the first process finds an empty local_dir and at most a partial NameA
InitRestart ==
    /\ InitRerun
    /\ remote # <<>>
    /\ local_dir = OnBaseNames([n \in BaseNames |-> -1], -1)
    /\ ~disk[NameB].exists

NextRestart ==
    \/ signal_handler
    \/ main_preflight_fails
    \/ sync_start
    \/ main_restart
    \/ get_files_top
    \/ get_files_raises
    \/ get_files_no_table
    \/ get_files_table
    \/ get_files_row
    \/ sync_after_listing
    \/ sync_after_plan
    \/ sync_after_summary
    \/ sync_confirm
    \/ download_files_top
    \/ download_files_record
    \/ dl_attempt_top
    \/ dl_request_raises
    \/ dl_request_fallback
    \/ dl_request_error_status
    \/ dl_request_ok
    \/ dl_stream_chunk
    \/ dl_stream_end
    \/ dl_stream_raises
    \/ dl_except
    \/ sync_finish
    \/ main_exit

SpecRestart == InitRestart /\ [][NextRestart]_vars

(***************************************************************************)
(* One run in which a fetch that can take a step takes one: requests.get   *)
(* and iter_content return or raise within their timeouts, and the sleep   *)
(* before a retry ends.                                                    *)
(***************************************************************************)
FetchSteps ==
    \/ dl_attempt_top
    \/ dl_request_raises
    \/ dl_request_fallback
    \/ dl_request_error_status
    \/ dl_request_ok
    \/ dl_stream_chunk
    \/ dl_stream_end
    \/ dl_stream_raises
    \/ dl_except

NextFair ==
    \/ signal_handler
    \/ main_preflight_fails
    \/ sync_start
    \/ get_files_top
    \/ get_files_raises
    \/ get_files_no_table
    \/ get_files_table
    \/ get_files_row
    \/ sync_after_listing
    \/ sync_after_plan
    \/ sync_after_summary
    \/ sync_confirm
    \/ download_files_top
    \/ download_files_record
    \/ FetchSteps
    \/ sync_finish
    \/ main_exit

SpecFair == InitRestart /\ [][NextFair]_vars /\ WF_vars(FetchSteps)

(***************************************************************************)
(* One run in which the transfer phase goes on by itself: besides the      *)
(* steps of a fetch, the loop of _download_files, the final summary and    *)
(* the return of main() need no input.  The listing has no such bound      *)
(* (its requests.get has no timeout) and the prompts wait for the          *)
(* operator.                                                               *)
(***************************************************************************)
TransferSteps ==
    \/ FetchSteps
    \/ download_files_top
    \/ download_files_record
    \/ sync_finish
    \/ main_exit

SpecCancel == InitRestart /\ [][NextFair]_vars /\ WF_vars(TransferSteps)

(***************************************************************************)
(* One run, from the same start, in which the chunks each download() call  *)
(* writes are counted.                                                     *)
(***************************************************************************)
InitCount ==
    /\ InitState(0)
    /\ config = [enabled |-> TRUE, pattern |-> <<".", "*">>, case_sensitive |-> FALSE]
    /\ remote # <<>>
    /\ local_dir = OnBaseNames([n \in BaseNames |-> -1], -1)
    /\ ~disk[NameB].exists

SpecCount == InitCount /\ [][NextFair]_vars

(***************************************************************************)
(* sync() called again in the same process, from the small start.          *)
(***************************************************************************)
SpecAgain == InitRestart /\ [][NextRerun]_vars

(***************************************************************************)
(* One run against a server that may stop answering.                       *)
(***************************************************************************)
NextNet ==
    \/ NextFair
    \/ get_files_hangs

SpecNet == InitRestart /\ [][NextNet]_vars

(***************************************************************************)
(* The planner alone: _apply_regex_filter applied to the candidates of     *)
(* any listing, local state and FILTER section.                            *)
(***************************************************************************)
\* the longest pattern of a FILTER section
MaxPat == 2

Tokens == {"a", "b", "B", ".", "*"}

\* local_dir: each file absent or of any size up to the largest
PlanLocalDirs == {OnBaseNames(dir, -1) : dir \in [BaseNames -> -1..MaxSize]}

\* the scenario: the listing [a.laz of 1000 bytes, b.laz of 2000 bytes], an
\* empty local_dir, and download_dir empty or holding 400 bytes of a.laz
ScenarioRemote == <<FileInfo(NameALaz, 1000), FileInfo(NameBLaz, 2000)>>
ScenarioDownloadDirs ==
    {[n \in Names |-> IF n = NameALaz THEN f ELSE NoStart] :
        f \in {NoStart, [exists |-> TRUE, data |-> Prefix(400)]}}

PlanPatterns == UNION {[1..n -> Tokens] : n \in 1..MaxPat}

InitPlan ==
    /\ terminate_requested = FALSE
    /\ pc = "plan_call"
    /\ config \in [enabled : BOOLEAN, pattern : PlanPatterns, case_sensitive : BOOLEAN]
    /\ \/ /\ remote \in Remotes \ {<<>>}
          /\ local_dir \in PlanLocalDirs
          /\ disk \in DownloadDirs
          /\ Len(disk[NameB].data) <= 1
       \/ /\ remote = ScenarioRemote
          /\ local_dir = OnBaseNames([n \in BaseNames |-> -1], -1)
          /\ disk \in ScenarioDownloadDirs
    /\ runs = 1
    /\ server_files = remote
    /\ list_attempt = 0
    /\ list_row = Len(remote)
    /\ partial_downloads = NoPartial
    /\ files_to_download = <<>>
    /\ total_size_estimate = 0
    /\ filtered_files = <<>>
    /\ downloaded_files = <<>>
    /\ failed_files = <<>>
    /\ total_bytes_downloaded = 0
    /\ idx = 0
    /\ success_count = 0
    /\ sync_ret = "none"
    /\ exit_code = -1
    /\ current_file = <<>>
    /\ stack = <<>>
    /\ fh_open = FALSE
    /\ dl_ret = NoRet
    /\ h_start = NoStart
    /\ h_reqs = 0
    /\ h_last_range = NoRange
    /\ h_restarts = 0
    /\ h_exit = "none"
    /\ h_confirmed = FALSE
    /\ h_prev = [downloaded |-> <<>>, failed |-> <<>>]
    /\ h_cancel = NoCancel
    /\ h_written = NoCount

\* the planning block of sync() is run once
plan_call ==
    /\ pc = "plan_call"
    /\ plan_files
    /\ pc' = "plan_done"
    /\ UNCHANGED <<terminate_requested, env_vars, disk, runs, server_files,
                   list_attempt, list_row, total_size_estimate, downloaded_files,
                   failed_files, total_bytes_downloaded, idx, success_count,
                   sync_ret, h_confirmed, h_prev, exit_code, dl_vars>>

\* sync() goes on to the estimate when the plan is not empty
plan_estimate ==
    /\ pc = "plan_done"
    /\ files_to_download # <<>>
    /\ total_size_estimate' =
           calculate_download_size(files_to_download, partial_downloads)
    /\ pc' = "plan_summarized"
    /\ UNCHANGED <<terminate_requested, env_vars, disk, runs, server_files,
                   list_attempt, list_row, partial_downloads, files_to_download,
                   filtered_files, downloaded_files, failed_files,
                   total_bytes_downloaded, idx, success_count, sync_ret,
                   h_confirmed, h_prev, exit_code, dl_vars>>

NextPlan ==
    \/ plan_call
    \/ plan_estimate

SpecPlan == InitPlan /\ [][NextPlan]_vars

(***************************************************************************)
(* The claims.                                                             *)
(***************************************************************************)
\* a requests.get of the running download() is issued in this step
IssuesRequest == h_reqs' = h_reqs + 1

\* the plan entry download() was last called for, once it has returned
Fetched == files_to_download[idx + 1]

\* download() has returned and its outcome is not yet recorded
Returned == pc = "dl_returned"

\* download() returned from one of the three tests of the flag
Cancelled == h_exit \in {"flag_top", "flag_chunk", "flag_except"}

\* C1: when an attempt failed with a transient error after it wrote bytes,
\* the next attempt asks for the range that starts at the file's current
\* on-disk length
C1_RetryFromCheckpoint ==
    [][(/\ pc = "dl_request"
        /\ Top.attempt > 0
        /\ Top.bytes_downloaded > 0
        /\ IssuesRequest)
       => h_last_range' = range_header(getsize(CurFile.name))]_vars

\* C2: after a fetch that restarted from byte 0 (the range was not
\* honoured) returns success, the file is as long as the remote file
C2_FallbackFullSize ==
    (Returned /\ h_restarts > 0 /\ dl_ret.success)
        => getsize(Fetched.name) = Fetched.size

\* C3: the first request of a fetch of a file holding k bytes, 0 < k < size,
\* carries the Range that starts at k, the length read when download()
\* was called
C3_FirstRangeAtLocalSize ==
    (/\ stack # <<>>
     /\ h_reqs = 1
     /\ h_start.exists
     /\ Len(h_start.data) > 0
     /\ Len(h_start.data) < CurFile.size)
        => h_last_range = Len(h_start.data)

C3_Witness ==
    /\ stack # <<>>
    /\ h_reqs = 1
    /\ Len(h_start.data) = 1
    /\ CurFile.size > 1
    /\ h_last_range = 1

\* C4 as stated: a fetch that ends on the flag leaves the file at least as
\* long as it was when the fetch started, on every path
C4_CancelNeverShrinks ==
    (Returned /\ Cancelled)
        => getsize(Fetched.name) >= Len(h_start.data)

\* C4 as amended: a fetch that ends on the flag and did not restart from
\* byte 0 leaves the file at least as long as it was when the fetch started
C4_CancelNeverShrinksWithoutRestart ==
    (Returned /\ Cancelled /\ h_restarts = 0)
        => getsize(Fetched.name) >= Len(h_start.data)

C4_Witness ==
    /\ Returned
    /\ h_exit = "flag_chunk"
    /\ h_restarts = 0
    /\ Len(h_start.data) > 0
    /\ getsize(Fetched.name) > Len(h_start.data)

\* C5: a fetch that leaves the file shorter than the remote file returns
\* failure, whatever headers the response carried
C5_ShortFileFails ==
    (Returned /\ getsize(Fetched.name) < Fetched.size) => ~dl_ret.success

\* C6: in a run that follows a run in which no fetch failed, no file the
\* earlier run reported as downloaded is in the plan
C6_SecondPlanEmpty ==
    (/\ runs >= 2
     /\ pc = "planned"
     /\ h_prev.failed = <<>>)
        => \A i \in 1..Len(h_prev.downloaded), j \in 1..Len(files_to_download) :
              h_prev.downloaded[i] # files_to_download[j].name

\* C7: with filtering disabled, the filter keeps no file and stores the
\* names of all candidates, in their order
C7_DisabledRejectsAll ==
    (pc = "plan_done" /\ ~config.enabled)
        => /\ files_to_download = <<>>
           /\ filtered_files = NamesOf(candidates(server_files))

C7_Witness ==
    /\ pc = "plan_done"
    /\ ~config.enabled
    /\ Len(filtered_files) = 2

\* the words of the language of a compiled pattern: every item takes a run
\* of cnt[i] characters it accepts, one character unless it is starred
RECURSIVE SumTo(_, _)
SumTo(cnt, i) == IF i = 0 THEN 0 ELSE cnt[i] + SumTo(cnt, i - 1)

InLanguage(items, w, ignorecase) ==
    \E cnt \in [1..Len(items) -> 0..Len(w)] :
        /\ \A i \in 1..Len(items) : ~items[i].star => cnt[i] = 1
        /\ SumTo(cnt, Len(items)) = Len(w)
        /\ \A i \in 1..Len(items) :
              \A k \in 1..cnt[i] :
                  re_char(items[i].ch, w[SumTo(cnt, i - 1) + k], ignorecase)

\* some substring of the name is a word of the pattern's language
SubstringMatches(pattern, name, ignorecase) ==
    \E i \in 1..(Len(name) + 1) :
        \E j \in (i - 1)..Len(name) :
            InLanguage(re_compile(pattern), SubSeq(name, i, j), ignorecase)

\* the names of a sequence of files, as a set
NameSet(files) == {files[i].name : i \in 1..Len(files)}
Range(seq) == {seq[i] : i \in 1..Len(seq)}

\* C8: with filtering enabled and a valid pattern, a candidate is kept iff
\* some substring of its name matches the pattern under the case flag, and
\* is in the filtered-out list iff none does
C8_KeptIffSearch ==
    (pc = "plan_done" /\ config.enabled /\ re_valid(config.pattern))
        => \A i \in 1..Len(candidates(server_files)) :
              LET n == candidates(server_files)[i].name
                  m == SubstringMatches(config.pattern, n, ~config.case_sensitive)
              IN  /\ (n \in NameSet(files_to_download)) <=> m
                  /\ (n \in Range(filtered_files)) <=> ~m

\* a candidate is kept on a match that is neither at the start of its name
\* nor the whole name, and another candidate is rejected
C8_Witness ==
    /\ pc = "plan_done"
    /\ config.enabled
    /\ config.pattern = <<"b">>
    /\ config.case_sensitive
    /\ NameSet(files_to_download) = {NameA}
    /\ filtered_files = <<NameB>>

\* a file transfer is under way
Transferring ==
    \/ pc \in {"loop", "dl_top", "dl_request", "dl_stream", "dl_except", "dl_returned"}
    \/ stack # <<>>
    \/ fh_open

\* C9: a file transfer is under way only in a run in which the operator
\* has answered the confirmation with yes, after the listing and the plan
C9_TransferOnlyAfterConfirm ==
    Transferring => (h_confirmed /\ server_files # <<>> /\ files_to_download # <<>>)

C9_Witness ==
    /\ runs = 2
    /\ pc = "dl_stream"
    /\ h_confirmed
    /\ h_reqs > 0

\* C10: a step of the fetch taken at the top of an attempt with the flag
\* set returns failure, issues no request and leaves the file and its
\* handle alone
C10_FlagAtTopReturns ==
    [][(pc = "dl_top" /\ terminate_requested /\ pc' \notin {"dl_top", "killed"})
       => /\ pc' = "dl_returned"
          /\ ~dl_ret'.success
          /\ h_reqs' = h_reqs
          /\ disk' = disk
          /\ fh_open' = fh_open
          /\ ~fh_open]_vars

\* the flag stopped a retry or the first attempt of a restart, after a request
C10_Witness ==
    /\ Returned
    /\ h_exit = "flag_top"
    /\ h_reqs > 0

\* C11: in a step taken with the flag set no chunk is appended to any file,
\* no attempt passes the test at the top of the retry loop, the exception
\* handler starts no retry, and download() is called for no plan entry
C11_FlagStopsProgress ==
    [][terminate_requested
       => /\ \A n \in Names : Len(disk'[n].data) <= Len(disk[n].data)
          /\ ~(pc = "dl_top" /\ pc' = "dl_request")
          /\ ~(pc = "dl_except" /\ pc' = "dl_top")
          /\ ~(pc = "loop" /\ pc' = "dl_top")]_vars

\* the flag stopped a fetch that had written a chunk, with plan entries left
C11_Witness ==
    /\ pc = "summary"
    /\ terminate_requested
    /\ h_exit = "flag_chunk"
    /\ dl_ret.bytes > 0
    /\ idx < Len(files_to_download)

\* C12: the first download() of a file after a fetch of it was cancelled
\* mid-stream, which the flag leaves to a later process, starts at the
\* length the file had when the cancelled fetch returned
C12_ResumeAtCancelLength ==
    [][(/\ pc = "loop"
        /\ pc' = "dl_top"
        /\ h_cancel.name = current_file'[1].name
        /\ ~h_cancel.used)
       => stack'[1].start_position = h_cancel.len]_vars

\* a later process resumes, from chunk 1, the file a cancelled fetch left
\* with one chunk where there was none
C12_Witness ==
    /\ runs = 2
    /\ pc = "dl_stream"
    /\ h_cancel.used
    /\ h_cancel.len = 1
    /\ CurFile.name = h_cancel.name
    /\ h_start = [exists |-> TRUE, data |-> <<0>>]
    /\ h_reqs = 1
    /\ h_last_range = 1

\* C13: when sync() returns from the transfer phase, it returns True iff
\* every plan entry is among the files fetched with success and the flag
\* is not set at the return
C13_SuccessIffAllFetched ==
    [][(pc = "summary" /\ pc' = "returned")
       => (sync_ret' = "true"
             <=> /\ \A i \in 1..Len(files_to_download) :
                       files_to_download[i].name \in Range(downloaded_files)
                 /\ ~terminate_requested)]_vars

\* a run returned False with no flag set, one of its two fetches having failed
C13_Witness ==
    /\ pc = "returned"
    /\ h_confirmed
    /\ sync_ret = "false"
    /\ ~terminate_requested
    /\ Len(downloaded_files) = 1
    /\ Len(failed_files) = 1

\* C14: with the flag not set, a fetch that returned failure is recorded in
\* failed_files and the loop goes on, and the loop calls download() for the
\* next plan entry as long as one is left
C14_FailureDoesNotAbort ==
    [][/\ (/\ pc = "dl_returned"
           /\ ~dl_ret.success
           /\ ~terminate_requested
           /\ pc' # "dl_returned")
          => /\ failed_files' = Append(failed_files, Fetched.name)
             /\ pc' = "loop"
       /\ (/\ pc = "loop"
           /\ ~terminate_requested
           /\ idx < Len(files_to_download)
           /\ pc' # "loop")
          => /\ pc' = "dl_top"
             /\ current_file' = <<files_to_download[idx + 1]>>]_vars

\* the first fetch failed with no flag set and the second one succeeded
C14_Witness ==
    /\ pc = "summary"
    /\ ~terminate_requested
    /\ Len(files_to_download) = 2
    /\ failed_files = <<files_to_download[1].name>>
    /\ downloaded_files = <<files_to_download[2].name>>
    /\ h_exit = "complete"

\* no element of a sequence occurs in it twice
NoDuplicates(seq) ==
    \A i, j \in 1..Len(seq) : i # j => seq[i] # seq[j]

\* C15: in a run on a listing of distinct names, no name is twice in
\* downloaded_files or twice in failed_files, none is in both, and no name
\* of filtered_files is in either
C15_OneOutcomePerFile ==
    /\ NoDuplicates(downloaded_files)
    /\ NoDuplicates(failed_files)
    /\ Range(downloaded_files) \cap Range(failed_files) = {}
    /\ Range(filtered_files) \cap (Range(downloaded_files) \cup Range(failed_files)) = {}

\* a run ended with one file filtered out and the other one fetched
C15_Witness ==
    /\ pc = "summary"
    /\ filtered_files = <<NameB>>
    /\ Range(downloaded_files) \cup Range(failed_files) = {NameA}

\* the process has ended: main() returned, or the handler called sys.exit
Ended == pc \in {"exited", "killed"}

\* the run ended on the operator's cancellation: sync() returned False with
\* the flag set, or a second signal ended the process
EndedOnCancel ==
    \/ pc = "exited" /\ sync_ret = "false" /\ terminate_requested
    \/ pc = "killed"

\* C16 as stated: the exit code is 0 after a run that succeeded, 2 after a
\* run that ended on the operator's cancellation, 1 after any other failure
C16_ExitCodes ==
    Ended
        => /\ (pc = "exited" /\ sync_ret = "true") => exit_code = 0
           /\ EndedOnCancel => exit_code = 2
           /\ (pc = "exited" /\ sync_ret = "none") => exit_code = 1
           /\ (pc = "exited" /\ sync_ret = "false" /\ ~terminate_requested)
                 => exit_code = 1

\* C16 as amended: the codes of main() are as stated, and a second signal
\* ends the process with 1
C16_ExitCodesForcedIsOne ==
    Ended
        => /\ (pc = "exited" /\ sync_ret = "true") => exit_code = 0
           /\ (pc = "exited" /\ sync_ret = "false" /\ terminate_requested)
                 => exit_code = 2
           /\ (pc = "exited" /\ sync_ret = "none") => exit_code = 1
           /\ (pc = "exited" /\ sync_ret = "false" /\ ~terminate_requested)
                 => exit_code = 1
           /\ pc = "killed" => (exit_code = 1 /\ terminate_requested)

\* a run cut short by the flag in the transfer phase ended with 2
C16_Witness ==
    /\ pc = "exited"
    /\ exit_code = 2
    /\ h_confirmed
    /\ Cancelled

\* C17: a download() restarts from byte 0 at most once, and the restarted
\* call is the innermost one
C17_RestartAtMostOnce ==
    /\ h_restarts <= 1
    /\ Len(stack) <= 2

\* the restarted call has sent a request of its own and is streaming
C17_Witness ==
    /\ h_restarts = 1
    /\ Len(stack) = 2
    /\ pc = "dl_stream"
    /\ h_reqs >= 2
    /\ h_last_range = NoRange

\* C18: a download() call ends (it returns, or a second signal ends the
\* process); it sends at most MaxRetries requests before and MaxRetries
\* after a restart; and when every attempt of a call that did not restart
\* raised and no flag was seen, it returns failure after MaxRetries requests
C18_FetchTerminates ==
    /\ [](h_reqs <= 2 * MaxRetries)
    /\ [](stack # <<>> => Top.attempt < MaxRetries)
    /\ []((Returned /\ h_exit = "exhausted")
            => /\ ~dl_ret.success
               /\ h_restarts = 0 => h_reqs = MaxRetries)
    /\ (stack # <<>>) ~> (stack = <<>> \/ pc = "killed")

\* every attempt of a fetch raised, with no flag set
C18_Witness ==
    /\ Returned
    /\ h_exit = "exhausted"
    /\ ~terminate_requested
    /\ h_restarts = 0
    /\ h_reqs = MaxRetries
    /\ dl_ret.bytes = 0

\* the names the planner took as candidates: the plan and the names the
\* filter rejected
CandidateNames == NameSet(files_to_download) \cup Range(filtered_files)

\* a file of that name is in local_dir or in download_dir
InLocalNames(n) == local_dir[n] >= 0 \/ disk[n].exists

\* the size of the local file of that name: of the copy in download_dir,
\* and of the copy in local_dir when download_dir has none
LocalSize(n) == IF disk[n].exists THEN Len(disk[n].data) ELSE local_dir[n]

\* C19 as stated: a remote file is a candidate iff its name is not among the
\* local names, or it is and the local file is shorter than the remote one
C19_CandidateIffAbsentOrShorter ==
    pc = "plan_done"
        => \A i \in 1..Len(server_files) :
              LET f == server_files[i]
              IN  (f.name \in CandidateNames)
                    <=> \/ ~InLocalNames(f.name)
                        \/ InLocalNames(f.name) /\ LocalSize(f.name) < f.size

\* C19 as amended: a remote file is a candidate iff its name is not among
\* the local names, or download_dir holds a file of that name shorter than
\* the remote one
C19_CandidateIffAbsentOrPartialDownload ==
    pc = "plan_done"
        => \A i \in 1..Len(server_files) :
              LET f == server_files[i]
              IN  (f.name \in CandidateNames)
                    <=> \/ ~InLocalNames(f.name)
                        \/ disk[f.name].exists /\ Len(disk[f.name].data) < f.size

\* NameA, whole in local_dir and partial in download_dir, is a candidate;
\* NameB, short in local_dir and absent from download_dir, is not
C19_Witness ==
    /\ pc = "plan_done"
    /\ server_files = <<FileInfo(NameA, MaxSize), FileInfo(NameB, 1)>>
    /\ local_dir[NameA] = MaxSize
    /\ disk[NameA] = [exists |-> TRUE, data |-> <<0>>]
    /\ local_dir[NameB] = 0
    /\ ~disk[NameB].exists
    /\ CandidateNames = {NameA}

\* the byte a fetch of the file would resume from: the length of the file
\* in download_dir, 0 if there is none
ResumeOffset(n) == IF disk[n].exists THEN Len(disk[n].data) ELSE 0

\* the sum over the first i plan entries of remote size minus resume offset
RECURSIVE BytesToMove(_, _)
BytesToMove(plan, i) ==
    IF i = 0 THEN 0
    ELSE BytesToMove(plan, i - 1) + (plan[i].size - ResumeOffset(plan[i].name))

\* the scenario: 400 bytes of a.laz in download_dir, filter enabled,
\* case-insensitive, pattern .*
Scenario ==
    /\ remote = ScenarioRemote
    /\ disk[NameALaz] = [exists |-> TRUE, data |-> Prefix(400)]
    /\ config = [enabled |-> TRUE, pattern |-> <<".", "*">>, case_sensitive |-> FALSE]

\* C20: the estimate is the sum over the plan entries of remote size minus
\* resume offset; in the scenario the plan is a.laz, recorded as partial at
\* 400 bytes, then b.laz, not partial, and the estimate is 2600 bytes
C20_EstimateIsBytesToMove ==
    pc = "plan_summarized"
        => /\ total_size_estimate =
                 BytesToMove(files_to_download, Len(files_to_download))
           /\ Scenario
                 => /\ files_to_download = ScenarioRemote
                    /\ partial_downloads[NameALaz] = 400
                    /\ ResumeOffset(NameALaz) = 400
                    /\ partial_downloads[NameBLaz] = -1
                    /\ ResumeOffset(NameBLaz) = 0
                    /\ total_size_estimate = 2600

C20_Witness ==
    /\ pc = "plan_summarized"
    /\ Scenario
    /\ total_size_estimate = 2600

\* C21: with filtering enabled and a pattern that does not compile, the
\* plan is empty and filtered_files names every candidate, and sync() then
\* returns at once, with no transfer: True, or False if the flag is set
C21_InvalidPatternNotFatal ==
    [][(pc = "planned" /\ config.enabled /\ ~re_valid(config.pattern))
       => /\ files_to_download = <<>>
          /\ filtered_files = NamesOf(candidates(server_files))
          /\ pc' # pc
                => /\ pc' \in {"returned", "killed"}
                   /\ pc' = "returned"
                         => (sync_ret' = "true" <=> ~terminate_requested)
                   /\ h_reqs' = 0
                   /\ disk' = disk]_vars

\* a run with an invalid pattern rejected two candidates and returned True
C21_Witness ==
    /\ pc = "returned"
    /\ sync_ret = "true"
    /\ config.enabled
    /\ ~re_valid(config.pattern)
    /\ Len(filtered_files) = 2
    /\ files_to_download = <<>>

\* C22: as long as filtering stays disabled (the operator has not accepted
\* the offer) the run is nowhere but at the prompt or past the return of
\* sync(), no listing was asked for, no fetch has sent a request and no file
\* is changed; and declining the offer makes sync() return True
C22_DeclinedOfferEndsClean ==
    [][/\ ~config.enabled'
          => /\ pc' \in {"idle", "filter_prompt", "returned", "exited", "killed"}
             /\ disk' = disk
             /\ h_reqs' = 0
             /\ list_attempt' = 0
             /\ server_files' = <<>>
             /\ ~fh_open'
       /\ (pc = "filter_prompt" /\ pc' = "returned")
          => /\ sync_ret' = "true"
             /\ ~config.enabled']_vars

\* the operator declined and main() ended with 0
C22_Witness ==
    /\ pc = "exited"
    /\ ~config.enabled
    /\ sync_ret = "true"
    /\ exit_code = 0
    /\ runs = 1

\* the names recorded as an outcome of the run
Recorded == Range(downloaded_files) \cup Range(failed_files)

\* C23: a step of the loop over the plan taken with the flag set leaves the
\* loop, calls no download() and records nothing; and once the loop is
\* left, no entry after the last one fetched has an outcome recorded
C23_FlagBetweenEntriesStopsLoop ==
    [][/\ (pc = "loop" /\ terminate_requested /\ pc' # pc)
          => /\ pc' \in {"summary", "killed"}
             /\ stack' = <<>>
             /\ current_file' = current_file
             /\ h_reqs' = h_reqs
             /\ idx' = idx
             /\ downloaded_files' = downloaded_files
             /\ failed_files' = failed_files
       /\ (pc' \in {"summary", "returned", "exited"} /\ h_confirmed')
          => \A i \in (idx' + 1)..Len(files_to_download') :
                files_to_download'[i].name \notin Recorded']_vars

\* the flag was seen after the first of two entries was fetched with success
C23_Witness ==
    /\ pc = "summary"
    /\ terminate_requested
    /\ Len(files_to_download) = 2
    /\ idx = 1
    /\ downloaded_files = <<files_to_download[1].name>>
    /\ failed_files = <<>>


(***************************************************************************)
(* C24: once the flag is set while get_files runs (or before sync() has    *)
(* looked at its result), get_files makes no further attempt, sync()       *)
(* returns False without planning, prompting or fetching, and main exits   *)
(* with 2; only a second signal, which ends the process at once, comes     *)
(* between.                                                                *)
(***************************************************************************)
ListingPcs == {"list_top", "list_req", "list_parse", "listed"}

C24_CancelDuringListing ==
    [][/\ (terminate_requested /\ pc \in ListingPcs)
          => /\ pc' \in ListingPcs \cup {"returned", "killed"}
             /\ pc' = "returned" => sync_ret' = "false"
             /\ list_attempt' = list_attempt
             /\ Len(server_files') <= Len(server_files)
             /\ files_to_download' = <<>> /\ ~h_confirmed'
             /\ h_reqs' = 0 /\ disk' = disk
       /\ (terminate_requested /\ pc = "returned" /\ sync_ret = "false" /\ pc' # pc)
          => \/ pc' = "exited" /\ exit_code' = 2
             \/ pc' = "killed"]_vars

\* the flag was seen between two rows of the listing: sync() got a part of
\* it and the process still exited with 2, nothing planned
C24_Witness ==
    /\ pc = "exited" /\ exit_code = 2 /\ sync_ret = "false"
    /\ server_files # <<>> /\ Len(server_files) < Len(remote)
    /\ files_to_download = <<>> /\ ~h_confirmed /\ h_reqs = 0


(***************************************************************************)
(* C25.  The final summary is the step out of pc = "summary": sync() gets  *)
(* there only from _download_files.                                        *)
(***************************************************************************)
TransferPcs == {"loop", "dl_top", "dl_request", "dl_stream", "dl_except", "dl_returned"}

PlanningPcs == {"listed", "planned", "summarized"}

\* C25 as stated: a run that sees the flag, in whichever state, returns
\* only out of the final summary (the prompts, which do not look at the
\* flag, left aside)
C25_CancelAlwaysSummarizes ==
    [][(/\ terminate_requested
        /\ pc \notin {"idle", "filter_prompt", "confirm"}
        /\ pc' = "returned")
          => pc = "summary"]_vars

\* C25 as amended: a run that sees the flag while transferring closes the
\* open file with what was written to it, leaves the transfer phase only
\* into the final summary, and then ends; a run that sees the flag after
\* the listing, the plan or the download summary returns without a final
\* summary; a second signal ends the process wherever it is
C25_CancelInTransferSummarizes ==
    /\ [][/\ (terminate_requested /\ pc \in TransferPcs /\ pc' \notin TransferPcs)
             => pc' \in {"summary", "killed"}
          /\ (terminate_requested /\ pc = "dl_stream" /\ pc' = "dl_returned")
             => ~fh_open' /\ disk' = disk
          /\ (terminate_requested /\ pc = "summary" /\ pc' # pc)
             => \/ pc' = "returned" /\ sync_ret' = "false"
                \/ pc' = "killed"
          /\ (terminate_requested /\ pc \in PlanningPcs /\ pc' # pc)
             => \/ pc' = "returned" /\ sync_ret' = "false"
                \/ pc' = "killed"]_vars
    /\ [](pc = "summary" => ~fh_open /\ stack = <<>>)
    /\ (terminate_requested /\ pc \in TransferPcs) ~> (pc \in {"exited", "killed"})

\* the flag was seen between two chunks: the file is closed with the chunk
\* written before, and the run is at its final summary
C25_Witness ==
    /\ pc = "summary"
    /\ terminate_requested
    /\ h_exit = "flag_chunk"
    /\ ~fh_open
    /\ failed_files # <<>>
    /\ getsize(failed_files[Len(failed_files)]) > 0


(***************************************************************************)
(* C26: a signal that finds the flag clear sets it and changes nothing     *)
(* else, so the run goes on from where it was; a signal that finds the     *)
(* flag set ends the process with exit code 1, and it can do so in every   *)
(* state of a running process; nothing else sets the flag or ends the      *)
(* process that way.                                                       *)
(***************************************************************************)
C26_FirstSetsSecondKills ==
    /\ [][/\ (~terminate_requested /\ terminate_requested')
             => UNCHANGED <<pc, exit_code, env_vars, disk, runs, sync_vars, dl_vars>>
          /\ terminate_requested => terminate_requested'
          /\ (pc' = "killed" /\ pc # "killed")
             => terminate_requested /\ exit_code' = 1 /\ disk' = disk]_vars
    /\ []((Running /\ ~terminate_requested)
            => ENABLED (signal_handler /\ terminate_requested' /\ pc' = pc))
    /\ []((Running /\ terminate_requested)
            => ENABLED (signal_handler /\ pc' = "killed"))

\* the second signal arrived between two chunks of a stream
C26_Witness ==
    /\ pc = "killed"
    /\ exit_code = 1
    /\ terminate_requested
    /\ stack # <<>>
    /\ Top.bytes_downloaded > 0
    /\ Top.resp_open


\* s is t with some of its elements left out, the others in t's order
IsSubsequence(s, t) ==
    \E f \in [1..Len(s) -> 1..Len(t)] :
        /\ \A i \in 1..Len(s) : s[i] = t[f[i]]
        /\ \A i, j \in 1..Len(s) : i < j => f[i] < f[j]

\* C27: the plan that comes out of the planner and the filter is a
\* subsequence of the remote listing, whatever the local directories and
\* the filter are
C27_PlanKeepsListingOrder ==
    pc \in {"plan_done", "plan_summarized"}
        => IsSubsequence(files_to_download, remote)

\* both files of the listing are in the plan
C27_Witness ==
    /\ pc = "plan_done"
    /\ Len(remote) = 2
    /\ Len(files_to_download) = 2
    /\ files_to_download[1] = remote[1]


(***************************************************************************)
(* C28: the file a fetch opened is open only while that attempt reads its  *)
(* stream: it is closed when the attempt ends, whichever way (the stream   *)
(* ends, whole or short; iter_content raises; the flag is seen), so it is  *)
(* closed between two attempts, when the fetch has returned and between    *)
(* two files.                                                              *)
(***************************************************************************)
C28_HandleOnlyWhileStreaming ==
    /\ fh_open => (pc = "dl_stream" /\ stack # <<>> /\ path_exists(CurFile.name))
    /\ pc = "dl_stream" => fh_open

\* between two attempts: the attempt before wrote a chunk and then raised
C28_Witness ==
    /\ pc = "dl_top"
    /\ stack # <<>>
    /\ Top.attempt > 0
    /\ Top.bytes_downloaded > 0
    /\ ~fh_open


\* the frames of the running fetch whose response stream is open
OpenResponses == {i \in 1..Len(stack) : stack[i].resp_open}

\* C29: at most one response stream is open at any point of a run, and no
\* request is sent while a response stream is open, the request of the
\* restart after a range that was not honoured included
C29_OneResponseAtATime ==
    /\ [](Cardinality(OpenResponses) <= 1)
    /\ [][IssuesRequest => OpenResponses = {}]_vars


\* C30: the count a download() call returns is the number of bytes that
\* call wrote to the file, the bytes of attempts that failed and were
\* retried included; and the run's total grows by that count, and by
\* nothing else, when the call is recorded
C30_CountIsBytesWritten ==
    /\ [](Returned => dl_ret.bytes = h_written)
    /\ [][/\ (Returned /\ pc' \in {"loop", "summary"})
             => total_bytes_downloaded' = total_bytes_downloaded + dl_ret.bytes
          /\ (~Returned /\ pc # "idle")
             => total_bytes_downloaded' = total_bytes_downloaded]_vars


\* the network call the run is in, if any (the connection test is made
\* before the run, in the step out of "idle")
CallInFlight ==
    IF pc \in {"list_req", "hung"} THEN {"listing"}
    ELSE IF pc \in {"dl_request", "dl_stream"} THEN {"fetch"}
    ELSE {}

\* C31: every network call of a run is made with a timeout, so no call
\* waits for ever on a server that has stopped answering
C31_NetworkCallsBounded ==
    /\ \A call \in CallInFlight : request_timeout(call) # NoTimeout
    /\ pc # "hung"


\* this step opens the local file of the running fetch
OpensFile == ~fh_open /\ fh_open'

\* C32: an attempt that opens the file keeps what the file holds (append)
\* only when its start position is above 0 and the response is a 206; in
\* every other case the file is empty after the open (truncate-write)
C32_AppendOnlyOnPartialContent ==
    [][OpensFile
        => LET n == CurFile.name
               resumed == Top.start_position > 0 /\ Top'.status = 206
           IN  /\ path_exists(n)'
               /\ resumed => disk'[n].data = disk[n].data
               /\ ~resumed => disk'[n].data = <<>>
               /\ Top.start_position > 0 => Top'.status = 206]_vars

\* a file of one chunk was opened for append on a 206 answer
C32_Witness ==
    /\ pc = "dl_stream"
    /\ fh_open
    /\ Top.start_position > 0
    /\ Top.status = 206
    /\ Top.bytes_downloaded = 0
    /\ getsize(CurFile.name) = Top.start_position


\* the fetch returns success in this step, out of an attempt that knew the
\* expected total
SucceedsWithTotal ==
    /\ pc = "dl_stream"
    /\ pc' = "dl_returned"
    /\ dl_ret'.success
    /\ Top.total_size > 0

\* C33: when a fetch returns success and the expected total is known, the
\* file is exactly as long as that total, whatever failures, retries and
\* restarts came before within the call
C33_SuccessLengthIsTotal ==
    [][SucceedsWithTotal
        => getsize(CurFile.name) = Top.total_size]_vars


\* C34: the restart after a range that was not honoured leaves the file as
\* it is, and so does every later step of the restarted fetch until one of
\* its requests is answered with a success status: the file changes only
\* in the step that opens it on such an answer and while it is open.  A
\* restarted fetch whose attempts all fail therefore returns with the file
\* it found
C34_RestartKeepsFileUntilSuccess ==
    [][/\ h_restarts' > h_restarts
          => disk' = disk /\ ~fh_open'
       /\ (h_restarts > 0 /\ stack # <<>> /\ disk' # disk)
          => \/ OpensFile /\ Top'.status = 200 /\ IssuesRequest
             \/ fh_open]_vars

\* the range request was answered 200, every request of the restarted
\* fetch failed, and the partial file is as the call found it
C34_Witness ==
    /\ Returned
    /\ h_restarts = 1
    /\ h_exit = "exhausted"
    /\ ~dl_ret.success
    /\ h_reqs = 1 + MaxRetries
    /\ h_start.exists /\ h_start.data # <<>>
    /\ disk[Fetched.name] = h_start


\* the requests the running _download_with_retries call has sent: one per
\* attempt begun, the current one included once its request is out
FrameRequests ==
    Top.attempt + (IF pc \in {"dl_stream", "dl_except"} THEN 1 ELSE 0)

\* C35: a call that did not restart has sent one request per attempt, at
\* most MaxRetries; the restarted fetch starts at attempt 0 whatever the
\* calling frame had used, and sends at most MaxRetries requests of its
\* own after the at most MaxRetries sent before; 2 * MaxRetries in all
C35_FreshBudgetAfterRestart ==
    /\ [](/\ h_restarts = 0 => h_reqs <= MaxRetries
          /\ h_restarts <= 1
          /\ (Len(stack) = 1 /\ pc # "killed")
                => h_reqs = FrameRequests /\ FrameRequests <= MaxRetries
          /\ (Len(stack) = 2 /\ pc # "killed")
                => /\ FrameRequests <= MaxRetries
                   /\ h_reqs - FrameRequests \in 1..MaxRetries
          /\ h_reqs <= 2 * MaxRetries)
    /\ [][h_restarts' > h_restarts => Top'.attempt = 0 /\ Len(stack') = 2]_vars

\* the last attempt of the calling frame was answered 200 and every request
\* of the restarted fetch failed: 2 * MaxRetries requests
C35_Witness ==
    /\ Returned
    /\ h_restarts = 1
    /\ h_reqs = 2 * MaxRetries
    /\ h_exit = "exhausted"


\* the stream of the running attempt ends in this step with no exception
\* and no flag seen
StreamEnds ==
    /\ pc = "dl_stream"
    /\ pc' = "dl_returned"
    /\ h_exit' # "flag_chunk"

\* C36: when the stream ends and the file is shorter than the known total,
\* the fetch returns failure in that step: it sends no further request,
\* whatever attempts are left, and leaves the short file as it is; an
\* attempt is followed by another only through the except handler
C36_TruncatedNotRetried ==
    [][/\ (StreamEnds /\ Top.total_size > 0 /\ getsize(CurFile.name) < Top.total_size)
          => /\ ~dl_ret'.success
             /\ h_exit' = "truncated"
             /\ disk' = disk
             /\ h_reqs' = h_reqs
             /\ stack' = <<>>
       /\ (pc = "dl_stream" /\ pc' # pc)
          => pc' \in {"dl_returned", "dl_except", "killed"}
       /\ (Returned /\ h_exit = "truncated" /\ pc' # pc /\ pc' # "killed")
          => /\ failed_files' = Append(failed_files, Fetched.name)
             /\ disk' = disk]_vars

\* the first attempt's stream ended short: one request sent, the short
\* file on disk
C36_Witness ==
    /\ Returned
    /\ h_exit = "truncated"
    /\ ~dl_ret.success
    /\ ~terminate_requested
    /\ h_reqs = 1
    /\ path_exists(Fetched.name)
    /\ getsize(Fetched.name) > 0
    /\ getsize(Fetched.name) < Fetched.size


\* the names of the first k entries of the plan
PlanPrefix(k) == {files_to_download[i].name : i \in 1..k}

\* C37: when the transfer loop has ended, downloaded_files and failed_files
\* are subsequences of the plan's names, they share no name and together
\* hold exactly the names of the first idx entries, and entries are left
\* over only when the flag is set
C37_OutcomesCoverPlanPrefix ==
    pc = "summary"
        => /\ IsSubsequence(downloaded_files, NamesOf(files_to_download))
           /\ IsSubsequence(failed_files, NamesOf(files_to_download))
           /\ idx <= Len(files_to_download)
           /\ Range(downloaded_files) \cup Range(failed_files) = PlanPrefix(idx)
           /\ Range(downloaded_files) \cap Range(failed_files) = {}
           /\ Len(downloaded_files) + Len(failed_files) = idx
           /\ idx < Len(files_to_download) => terminate_requested

\* the loop ended on the flag after the first of two entries had failed
C37_Witness ==
    /\ pc = "summary"
    /\ terminate_requested
    /\ Len(files_to_download) = 2
    /\ idx = 1
    /\ failed_files = <<files_to_download[1].name>>
    /\ downloaded_files = <<>>


\* C38: whatever the filter mode, the names of the plan and filtered_files
\* are both subsequences of the candidates' names, each candidate's name is
\* in exactly one of them, and neither holds any other name
C38_FilterPartitionsCandidates ==
    pc = "plan_done"
        => LET cand == NamesOf(candidates(server_files))
               kept == NamesOf(files_to_download)
           IN  /\ IsSubsequence(kept, cand)
               /\ IsSubsequence(filtered_files, cand)
               /\ Range(kept) \cup Range(filtered_files) = Range(cand)
               /\ Range(kept) \cap Range(filtered_files) = {}
               /\ Len(kept) + Len(filtered_files) = Len(cand)

\* a valid pattern that keeps one of two candidates and rejects the other
C38_Witness ==
    /\ pc = "plan_done"
    /\ config.enabled
    /\ re_valid(config.pattern)
    /\ Len(files_to_download) = 1
    /\ Len(filtered_files) = 1


\* sync() is entered in this step
EntersSync == runs' = runs + 1

\* C39: the flag, once set, stays set in every step of the process; a
\* sync() entered with the flag set empties its lists and its byte total
\* and keeps the flag, and it ends at its first look at the flag: get_files
\* sends no request and returns nothing, and sync() returns False
C39_FlagNeverCleared ==
    [][/\ terminate_requested => terminate_requested'
       /\ (EntersSync /\ terminate_requested)
          => /\ terminate_requested'
             /\ downloaded_files' = <<>> /\ failed_files' = <<>>
             /\ filtered_files' = <<>> /\ total_bytes_downloaded' = 0
             /\ pc' = "list_top"
       /\ (terminate_requested /\ pc = "list_top" /\ pc' # pc)
          => /\ pc' \in {"listed", "killed"}
             /\ server_files' = <<>>
             /\ h_reqs' = h_reqs
       /\ (terminate_requested /\ pc = "listed" /\ pc' # pc)
          => \/ pc' = "returned" /\ sync_ret' = "false"
             \/ pc' = "killed"]_vars

\* the second sync() of a process whose first one was cancelled after a
\* file had been fetched
C39_Witness ==
    /\ runs = 2
    /\ pc = "returned"
    /\ sync_ret = "false"
    /\ terminate_requested
    /\ h_prev.downloaded # <<>>
    /\ downloaded_files = <<>>
    /\ server_files = <<>>
    /\ list_attempt = 0


\* C40: when get_files has returned no entry and the flag is not set,
\* sync() returns False without a plan, a prompt or a request for a file,
\* whether the listing failed or the directory is empty, and main exits
\* with 1 unless the flag is set before it reads it
C40_EmptyListingIsFailure ==
    /\ [][(pc = "listed" /\ server_files = <<>> /\ ~terminate_requested /\ pc' # pc)
            => /\ pc' = "returned"
               /\ sync_ret' = "false"
               /\ files_to_download' = <<>>
               /\ partial_downloads' = partial_downloads
               /\ filtered_files' = filtered_files]_vars
    /\ []((pc = "exited" /\ sync_ret = "false" /\ server_files = <<>>
                /\ ~terminate_requested)
            => /\ exit_code = 1
               /\ files_to_download = <<>>
               /\ ~h_confirmed
               /\ h_reqs = 0
               /\ disk \in DownloadDirs)

\* the directory was listed at the first attempt and is empty
C40_Witness ==
    /\ pc = "exited"
    /\ exit_code = 1
    /\ sync_ret = "false"
    /\ ~terminate_requested
    /\ remote = <<>>
    /\ server_files = <<>>
    /\ list_attempt = 0

============================================================================
